---- MODULE Spec2Model ----
(***************************************************************************)
(* Session bridge of livetranslation_rust (src/src/main.rs, handle_ws).    *)
(*                                                                         *)
(* One speaker session: the client-inbound loop (the body of handle_ws),   *)
(* the upstream-inbound reader task it spawns, the two cells they share    *)
(* (response_active, last_delta), the reader's running buffer current_buf  *)
(* and the per-step outputs of the session: directives sent upstream,      *)
(* events published to the room channel, messages sent to the speaker.     *)
(*                                                                         *)
(* Time is kept relative: sinceDelta is last_delta.elapsed() in ms, capped *)
(* at MaxElapsed (the code only compares it with 800 ms).                  *)
(*                                                                         *)
(* The upstream engine is the environment.  Each response.create the       *)
(* session sends opens a turn; the engine emits the events of one turn at  *)
(* a time, oldest unfinished turn first: created, text deltas (flat or     *)
(* nested shape), a text-done event, then a terminal done or error event.  *)
(* A cancelled turn may still deliver its trailing events.  The turn an    *)
(* event belongs to is bookkeeping of the model (phase, cancelled,         *)
(* finals): the code never sees a turn identifier.                         *)
(***************************************************************************)
EXTENDS Integers, Sequences, FiniteSets, TLC

VARIABLES
    clientPc,          \* position of handle_ws / the client-inbound loop
    readerPc,          \* position of the spawned reader task
    inited,            \* let mut inited
    audio_buffer_size, \* let mut audio_buffer_size
    response_active,   \* Arc<AtomicBool> response_active
    sinceDelta,        \* last_delta.elapsed(), ms, capped
    sleptMs,           \* time spent in the commit handler's sleep, capped
    current_buf,       \* reader's String current_buf, a sequence of characters
    sent,              \* directives sent upstream by the last step
    pub,               \* events sent on the room channel by the last step
    ws_out,            \* messages sent to the speaker by the last step
    nturns,            \* number of response.create directives sent so far
    phase,             \* per turn: "none", "open", "textdone", "ended"
    cancelled,         \* turns a response.cancel was sent for
    finals,            \* the turn of the last done-style event, the number of
                       \* done-style events of that turn and of finals they published
    deltas,            \* delta texts received since current_buf was last emptied
    last_kind,         \* type of the last event sent on the room channel,
                       \* "none" before the first; "untracked" where the
                       \* specification keeps no record of it
    skipped,           \* why the last step dropped a speaker message: "none",
                       \* "binary", "commit" (not inited), "audio", "active"
    rooms,             \* state.rooms: the ids the registry holds
    tail,              \* per room: values its broadcast channel has stored
    viewers,           \* per viewer: the receiver sse_room gave it
    sess               \* per speaker connection: a run of handle_ws, in outline

sessionVars == <<clientPc, readerPc, inited, audio_buffer_size, response_active,
                 sinceDelta, sleptMs, current_buf, sent, pub, ws_out, nturns,
                 phase, cancelled, finals, deltas, skipped, last_kind>>
roomVars == <<rooms, tail, viewers, sess>>
vars == <<sessionVars, roomVars>>

----------------------------------------------------------------------------
(* Program constants *)

SAMPLE_RATE == 24000
BYTES_PER_SAMPLE == 2
MIN_DURATION_MS == 100
SLEEP_MS == 100
STALE_MS == 800

CHANNEL_CAP == 256

min_samples == (SAMPLE_RATE * MIN_DURATION_MS) \div 1000
min_bytes == min_samples * BYTES_PER_SAMPLE

(* Bounds of the model *)

MaxTurns == 3        \* response.create directives per session
MaxDeltas == 2       \* delta events between two moments current_buf is empty
MaxAudio == 4800     \* cap of audio_buffer_size
MaxElapsed == 1200   \* cap of the relative clocks, ms
TickMs == 400        \* granularity of time, ms

MaxRoomPub == 2      \* values stored per channel, small instance
MaxLagPub == 258     \* values stored per channel, lagging instance

RoomIds == {"r1", "r2"}                   \* room ids a request can name
Viewers == {"v1", "v2"}                   \* GET /sse/:room requests
Sessions == {"s1", "s2"}                  \* GET /ws/:room connections
FrameLens == {2400, 4799}                 \* lengths of binary frames
DeltaTexts == {<<>>, <<"a">>, <<"b">>}   \* texts of delta events
Turns == 1..MaxTurns

Min(a, b) == IF a < b THEN a ELSE b

----------------------------------------------------------------------------
(* Wire messages *)

SessionUpdate == "session.update"
AudioAppend == "input_audio_buffer.append"
BufferCommit == "input_audio_buffer.commit"
ResponseCreate == "response.create"
ResponseCancel == "response.cancel"

Partial(buf) == [type |-> "partial", text |-> buf]
Final(buf) == [type |-> "final", text |-> buf]
ErrorEvent == [type |-> "error", text |-> <<"raw">>]

RoomNotFound == "room not found"
UpstreamError == "upstream error"
CloseFrame == "close"

\* a viewer without a receiver, a connection handle_ws has not been run for
NoReceiver == [room |-> "none", next |-> 0, from |-> 0, got |-> -1,
               lagged |-> FALSE]
NoSession == [pc |-> "idle", tx |-> "none", ws |-> <<>>, dialed |-> FALSE,
              response_active |-> FALSE, audio_buffer_size |-> 0,
              current_buf |-> <<>>]

\* the type of the last event sent on the channel, after a step that sent q
LastKind(kind, q) == IF kind = "untracked" \/ q = <<>> THEN kind
                     ELSE q[Len(q)].type

RECURSIVE Flatten(_)
Flatten(ss) == IF ss = <<>> THEN <<>> ELSE Head(ss) \o Flatten(Tail(ss))

----------------------------------------------------------------------------
(* Turn bookkeeping *)

Started(k) == k <= nturns
Unfinished == {k \in Turns : Started(k) /\ phase[k] # "ended"}
HasCur == Unfinished # {}
CurTurn == CHOOSE k \in Unfinished : \A j \in Unfinished : k <= j
InFlight(k) == Started(k) /\ phase[k] = "open" /\ k \notin cancelled

----------------------------------------------------------------------------
Start(kind) ==
    /\ clientPc = "lookup"
    /\ readerPc = "none"
    /\ inited = FALSE
    /\ audio_buffer_size = 0
    /\ response_active = FALSE
    /\ sinceDelta = 0
    /\ sleptMs = 0
    /\ current_buf = <<>>
    /\ sent = <<>>
    /\ pub = <<>>
    /\ ws_out = <<>>
    /\ nturns = 0
    /\ phase = [k \in Turns |-> "none"]
    /\ cancelled = {}
    /\ finals = [turn |-> 0, dones |-> 0, n |-> 0]
    /\ deltas = <<>>
    /\ skipped = "none"
    /\ last_kind = kind
    /\ rooms = {}
    /\ tail = [r \in RoomIds |-> 0]
    /\ viewers = [v \in Viewers |-> NoReceiver]
    /\ sess = [s \in Sessions |-> NoSession]

Init == Start("untracked")

\* the same state, with the record of the last published event kept
TraceInit == Start("none")

turnVars == <<nturns, phase, cancelled>>
readerVars == <<current_buf, finals, deltas>>
clientLocals == <<inited, audio_buffer_size>>

----------------------------------------------------------------------------
(* handle_ws before the loops: room lookup and upstream connect *)

\* let tx = match state.rooms.get(&room) { Some.. / None => send error; return }
HandleWsLookup(found) ==
    /\ clientPc = "lookup"
    /\ IF found
       THEN /\ clientPc' = "connect"
            /\ ws_out' = <<>>
       ELSE /\ clientPc' = "returned"
            /\ ws_out' = <<RoomNotFound>>
    /\ sent' = <<>>
    /\ pub' = <<>>
    /\ UNCHANGED <<readerPc, response_active, sinceDelta,
                   sleptMs>>
    /\ UNCHANGED <<turnVars, readerVars, clientLocals>>
    /\ skipped' = "none"
    /\ last_kind' = LastKind(last_kind, pub')
    /\ UNCHANGED roomVars

\* timeout(CONNECT_TIMEOUT, connect_async(req)): Err / Ok(Err) / Ok(Ok(p));
\* on success the shared cells are created and the reader task is spawned
HandleWsConnect(ok) ==
    /\ clientPc = "connect"
    /\ IF ok
       THEN /\ clientPc' = "recv"
            /\ readerPc' = "read"
            /\ response_active' = FALSE
            /\ sinceDelta' = 0
            /\ ws_out' = <<>>
       ELSE /\ clientPc' = "returned"
            /\ ws_out' = <<UpstreamError, CloseFrame>>
            /\ UNCHANGED <<readerPc, response_active, sinceDelta>>
    /\ sent' = <<>>
    /\ pub' = <<>>
    /\ UNCHANGED <<sleptMs>>
    /\ UNCHANGED <<turnVars, readerVars, clientLocals>>
    /\ skipped' = "none"
    /\ last_kind' = LastKind(last_kind, pub')
    /\ UNCHANGED roomVars

----------------------------------------------------------------------------
(* The reader task: one action per upstream message it reads *)

PushFront(buf, d) == d \o buf

\* current_buf.push_str(delta)
PushStr(buf, d) == buf \o d

\* if !current_buf.is_empty() { send final; current_buf.clear() }
DonePublishes(buf) == IF buf # <<>> THEN <<Final(buf)>> ELSE <<>>
DoneBufferKept(buf) == buf

\* current_buf.clear()
DoneBuffer(buf) == <<>>

CanRead == readerPc = "read"

\* "response.created" => response_active_r.store(true)
ReaderCreated ==
    /\ CanRead
    /\ HasCur /\ phase[CurTurn] = "open"
    /\ response_active' = TRUE
    /\ sent' = <<>> /\ pub' = <<>> /\ ws_out' = <<>>
    /\ UNCHANGED <<clientPc, readerPc, sinceDelta, sleptMs>>
    /\ UNCHANGED <<turnVars, readerVars, clientLocals>>
    /\ skipped' = "none"
    /\ last_kind' = LastKind(last_kind, pub')
    /\ UNCHANGED roomVars

\* "response.output_text.delta" | "response.text.delta" with a string "delta":
\* *last_delta = now; current_buf.push_str(delta); send partial
ReaderDeltaFlat(d) ==
    /\ CanRead
    /\ HasCur /\ phase[CurTurn] = "open"
    /\ Len(deltas) < MaxDeltas
    /\ sinceDelta' = 0
    /\ current_buf' = PushStr(current_buf, d)
    /\ pub' = <<Partial(current_buf')>>
    /\ deltas' = Append(deltas, d)
    /\ sent' = <<>> /\ ws_out' = <<>>
    /\ UNCHANGED <<clientPc, readerPc, response_active, sleptMs, finals>>
    /\ UNCHANGED <<turnVars, clientLocals>>
    /\ skipped' = "none"
    /\ last_kind' = LastKind(last_kind, pub')
    /\ UNCHANGED roomVars

\* "response.delta" whose "delta" object is tagged "output_text.delta" and
\* holds a string "text": the same three statements
ReaderDeltaNested(d) ==
    /\ CanRead
    /\ HasCur /\ phase[CurTurn] = "open"
    /\ Len(deltas) < MaxDeltas
    /\ sinceDelta' = 0
    /\ current_buf' = PushStr(current_buf, d)
    /\ pub' = <<Partial(current_buf')>>
    /\ deltas' = Append(deltas, d)
    /\ sent' = <<>> /\ ws_out' = <<>>
    /\ UNCHANGED <<clientPc, readerPc, response_active, sleptMs, finals>>
    /\ UNCHANGED <<turnVars, clientLocals>>
    /\ skipped' = "none"
    /\ last_kind' = LastKind(last_kind, pub')
    /\ UNCHANGED roomVars

\* the body of the done arm, for an event of turn k that moves it to phase p
DoneArm(k, p) ==
    /\ pub' = DonePublishes(current_buf)
    /\ current_buf' = IF current_buf # <<>> THEN DoneBuffer(current_buf) ELSE current_buf
    /\ response_active' = FALSE
    /\ finals' = [turn |-> k,
                  dones |-> (IF finals.turn = k THEN finals.dones ELSE 0) + 1,
                  n |-> (IF finals.turn = k THEN finals.n ELSE 0) + Len(pub')]
    /\ deltas' = IF current_buf' = <<>> THEN <<>> ELSE deltas
    /\ phase' = [phase EXCEPT ![k] = p]
    /\ cancelled' = IF p = "ended" THEN cancelled \ {k} ELSE cancelled
    /\ sent' = <<>> /\ ws_out' = <<>>
    /\ UNCHANGED <<clientPc, readerPc, sinceDelta, sleptMs>>
    /\ UNCHANGED <<nturns, clientLocals>>
    /\ skipped' = "none"
    /\ last_kind' = LastKind(last_kind, pub')
    /\ UNCHANGED roomVars

\* "response.output_text.done" | "response.text.done"
ReaderTextDone ==
    /\ CanRead
    /\ HasCur /\ phase[CurTurn] = "open"
    /\ DoneArm(CurTurn, "textdone")

\* "response.completed" | "response.done"
ReaderDone ==
    /\ CanRead
    /\ HasCur
    /\ DoneArm(CurTurn, "ended")

\* "error" => send error event; response_active_r.store(false)
ReaderError ==
    /\ CanRead
    /\ HasCur
    /\ pub' = <<ErrorEvent>>
    /\ response_active' = FALSE
    /\ phase' = [phase EXCEPT ![CurTurn] = "ended"]
    /\ cancelled' = cancelled \ {CurTurn}
    /\ sent' = <<>> /\ ws_out' = <<>>
    /\ UNCHANGED <<clientPc, readerPc, sinceDelta, sleptMs>>
    /\ UNCHANGED <<nturns, readerVars, clientLocals>>
    /\ skipped' = "none"
    /\ last_kind' = LastKind(last_kind, pub')
    /\ UNCHANGED roomVars

\* any other event type, unparsable text, a delta without a string, Ok(_)
ReaderIgnored ==
    /\ CanRead
    /\ sent' = <<>> /\ pub' = <<>> /\ ws_out' = <<>>
    /\ UNCHANGED <<clientPc, readerPc, response_active, sinceDelta,
                   sleptMs>>
    /\ UNCHANGED <<turnVars, readerVars, clientLocals>>
    /\ skipped' = "none"
    /\ last_kind' = LastKind(last_kind, pub')
    /\ UNCHANGED roomVars

\* upstream_read.next() yields None, or Err(e) => break
ReaderExit ==
    /\ CanRead
    /\ readerPc' = "exited"
    /\ sent' = <<>> /\ pub' = <<>> /\ ws_out' = <<>>
    /\ UNCHANGED <<clientPc, response_active, sinceDelta,
                   sleptMs>>
    /\ UNCHANGED <<turnVars, readerVars, clientLocals>>
    /\ skipped' = "none"
    /\ last_kind' = LastKind(last_kind, pub')
    /\ UNCHANGED roomVars

----------------------------------------------------------------------------
(* The client-inbound loop: one action per client message, the commit      *)
(* handler cut at its sleep and before its final stores                    *)

AdmitAlways(size) == TRUE
AdmitStrict(size) == size > min_bytes

\* if audio_buffer_size < min_bytes { continue }
AdmitCommit(size) == size >= min_bytes

StaleInclusive(elapsed) == elapsed >= STALE_MS
StaleNever(elapsed) == FALSE

\* if elapsed > Duration::from_millis(800)
Stale(elapsed) == elapsed > STALE_MS

ReaderDetached == TRUE

\* reader.await
ReaderJoined == readerPc = "exited"

\* ClientMsg::Init: send session.update; inited = true; audio_buffer_size = 0
ClientInit ==
    /\ clientPc = "recv"
    /\ sent' = <<SessionUpdate>>
    /\ inited' = TRUE
    /\ audio_buffer_size' = 0
    /\ pub' = <<>> /\ ws_out' = <<>>
    /\ UNCHANGED <<clientPc, readerPc, response_active, sinceDelta,
                   sleptMs>>
    /\ UNCHANGED <<turnVars, readerVars>>
    /\ skipped' = "none"
    /\ last_kind' = LastKind(last_kind, pub')
    /\ UNCHANGED roomVars

BinaryAlways == TRUE

\* Message::Binary: if !inited { continue }
BinaryAccepted == inited

\* Message::Binary(bin): if !inited { continue }; count and forward
ClientBinary(len) ==
    /\ clientPc = "recv"
    /\ inited => audio_buffer_size + len <= MaxAudio
    /\ IF BinaryAccepted
       THEN /\ audio_buffer_size' = audio_buffer_size + len
            /\ sent' = <<AudioAppend>>
       ELSE /\ audio_buffer_size' = audio_buffer_size
            /\ sent' = <<>>
    /\ pub' = <<>> /\ ws_out' = <<>>
    /\ UNCHANGED <<clientPc, readerPc, inited, response_active, sinceDelta, sleptMs>>
    /\ UNCHANGED <<turnVars, readerVars>>
    /\ skipped' = IF BinaryAccepted THEN "none" ELSE "binary"
    /\ last_kind' = LastKind(last_kind, pub')
    /\ UNCHANGED roomVars

\* ClientMsg::Commit: if !inited { continue }
CommitAccepted == inited

\* ClientMsg::Commit: if !inited { continue }; then sleep(100 ms)
ClientCommit ==
    /\ clientPc = "recv"
    /\ nturns < MaxTurns
    /\ clientPc' = IF CommitAccepted THEN "sleep" ELSE "recv"
    /\ sleptMs' = 0
    /\ sent' = <<>> /\ pub' = <<>> /\ ws_out' = <<>>
    /\ UNCHANGED <<readerPc, response_active, sinceDelta>>
    /\ UNCHANGED <<turnVars, readerVars, clientLocals>>
    /\ skipped' = IF CommitAccepted THEN "none" ELSE "commit"
    /\ last_kind' = LastKind(last_kind, pub')
    /\ UNCHANGED roomVars

CancelAlone(active) == IF active THEN <<ResponseCancel>>
                       ELSE <<BufferCommit, ResponseCreate>>

\* the sends of an admitted commit, in program order: response.cancel when a
\* stale turn is abandoned, input_audio_buffer.commit, response.create
CommitDirectives(active) == (IF active THEN <<ResponseCancel>> ELSE <<>>)
                            \o <<BufferCommit, ResponseCreate>>

\* the commit handler after its sleep: audio gate, staleness check, and the
\* cancel / commit / response.create directives.  The reader's stores to
\* response_active between the load and CommitStore are overwritten by
\* CommitStore, so the sends are taken in one step with the decision; the
\* final stores are a step of their own, which the reader can precede.
CommitGate ==
    /\ clientPc = "sleep"
    /\ sleptMs >= SLEEP_MS
    /\ IF ~AdmitCommit(audio_buffer_size)
       THEN /\ clientPc' = "recv"
            /\ sent' = <<>>
            /\ UNCHANGED <<response_active, turnVars>>
       ELSE IF response_active /\ ~Stale(sinceDelta)
       THEN /\ clientPc' = "recv"
            /\ sent' = <<>>
            /\ UNCHANGED <<response_active, turnVars>>
       ELSE /\ clientPc' = "store"
            /\ sent' = CommitDirectives(response_active)
            /\ response_active' = FALSE
            /\ cancelled' = IF response_active
                            THEN cancelled \cup Unfinished
                            ELSE cancelled
            /\ nturns' = nturns + 1
            /\ phase' = [phase EXCEPT ![nturns + 1] = "open"]
    /\ sleptMs' = 0
    /\ pub' = <<>> /\ ws_out' = <<>>
    /\ UNCHANGED <<readerPc, sinceDelta>>
    /\ UNCHANGED <<readerVars, clientLocals>>
    /\ skipped' = IF ~AdmitCommit(audio_buffer_size) THEN "audio"
                  ELSE IF response_active /\ ~Stale(sinceDelta) THEN "active"
                  ELSE "none"
    /\ last_kind' = LastKind(last_kind, pub')
    /\ UNCHANGED roomVars

\* response_active.store(true); audio_buffer_size = 0
CommitStore ==
    /\ clientPc = "store"
    /\ response_active' = TRUE
    /\ audio_buffer_size' = 0
    /\ clientPc' = "recv"
    /\ sent' = <<>> /\ pub' = <<>> /\ ws_out' = <<>>
    /\ UNCHANGED <<readerPc, inited, sinceDelta, sleptMs>>
    /\ UNCHANGED <<turnVars, readerVars>>
    /\ skipped' = "none"
    /\ last_kind' = LastKind(last_kind, pub')
    /\ UNCHANGED roomVars

\* unparsable text and the other frame kinds: _ => {}
ClientIgnored ==
    /\ clientPc = "recv"
    /\ sent' = <<>> /\ pub' = <<>> /\ ws_out' = <<>>
    /\ UNCHANGED <<clientPc, readerPc, response_active, sinceDelta,
                   sleptMs>>
    /\ UNCHANGED <<turnVars, readerVars, clientLocals>>
    /\ skipped' = "none"
    /\ last_kind' = LastKind(last_kind, pub')
    /\ UNCHANGED roomVars

\* Message::Close(_) => break, or ws_rx.next() yields None or Some(Err(_))
ClientClose ==
    /\ clientPc = "recv"
    /\ clientPc' = "teardown"
    /\ sent' = <<>> /\ pub' = <<>> /\ ws_out' = <<>>
    /\ UNCHANGED <<readerPc, response_active, sinceDelta,
                   sleptMs>>
    /\ UNCHANGED <<turnVars, readerVars, clientLocals>>
    /\ skipped' = "none"
    /\ last_kind' = LastKind(last_kind, pub')
    /\ UNCHANGED roomVars

\* ws_tx.send(Message::Close(None))
Teardown ==
    /\ clientPc = "teardown"
    /\ clientPc' = "join"
    /\ ws_out' = <<CloseFrame>>
    /\ sent' = <<>> /\ pub' = <<>>
    /\ UNCHANGED <<readerPc, response_active, sinceDelta,
                   sleptMs>>
    /\ UNCHANGED <<turnVars, readerVars, clientLocals>>
    /\ skipped' = "none"
    /\ last_kind' = LastKind(last_kind, pub')
    /\ UNCHANGED roomVars

\* let _ = reader.await; then handle_ws returns
Join ==
    /\ clientPc = "join"
    /\ ReaderJoined
    /\ clientPc' = "returned"
    /\ sent' = <<>> /\ pub' = <<>> /\ ws_out' = <<>>
    /\ UNCHANGED <<readerPc, response_active, sinceDelta,
                   sleptMs>>
    /\ UNCHANGED <<turnVars, readerVars, clientLocals>>
    /\ skipped' = "none"
    /\ last_kind' = LastKind(last_kind, pub')
    /\ UNCHANGED roomVars

\* TickMs of time pass; the clocks are read by the commit handler alone, so
\* they are advanced only while the client loop runs
Tick ==
    /\ clientPc \in {"recv", "sleep", "store"}
    /\ sinceDelta' = Min(sinceDelta + TickMs, MaxElapsed)
    /\ sleptMs' = IF clientPc = "sleep" THEN Min(sleptMs + TickMs, SLEEP_MS) ELSE sleptMs
    /\ sent' = <<>> /\ pub' = <<>> /\ ws_out' = <<>>
    /\ UNCHANGED <<clientPc, readerPc, response_active>>
    /\ UNCHANGED <<turnVars, readerVars, clientLocals>>
    /\ skipped' = "none"
    /\ last_kind' = LastKind(last_kind, pub')
    /\ UNCHANGED roomVars

----------------------------------------------------------------------------
(* The room registry and the broadcast channel of each room, with every    *)
(* speaker connection in outline: the channel it publishes on and the      *)
(* three cells handle_ws keeps for it.  A channel is tokio's broadcast     *)
(* channel of capacity CHANNEL_CAP: tail[r] counts the values it has       *)
(* stored, a value is named by its index and kept in slot index modulo     *)
(* CHANNEL_CAP until a later value overwrites it, and a receiver holds the *)
(* index it reads next (next), the tail at its subscription (from), the    *)
(* index of the value it was last given (got) and whether values were ever *)
(* dropped for it (lagged).                                                *)

Receivers(r) == {v \in Viewers : viewers[v].room = r}

\* create_room: a fresh id, broadcast::channel(256), state.rooms.insert;
\* the receiver the constructor returns is dropped when create_room returns
CreateRoom(r) ==
    /\ r \notin rooms
    /\ rooms' = rooms \cup {r}
    /\ tail' = [tail EXCEPT ![r] = 0]
    /\ UNCHANGED <<viewers, sess>>
    /\ UNCHANGED sessionVars

SubscribeFromStart(t) == 0

\* tx.subscribe(): the receiver starts at the channel's tail
SubscribeCursor(t) == t

\* sse_room: state.rooms.get(&room), None => 404; tx.subscribe()
SseRoom(v, r) ==
    /\ viewers[v].room = "none"
    /\ r \in rooms
    /\ viewers' = [viewers EXCEPT ![v] = [room |-> r,
                                          next |-> SubscribeCursor(tail[r]),
                                          from |-> tail[r],
                                          got |-> -1,
                                          lagged |-> FALSE]]
    /\ UNCHANGED <<rooms, tail, sess>>
    /\ UNCHANGED sessionVars

\* sse_room for an id the registry does not hold: NOT_FOUND, nothing else
SseRoomMissing(v, r) ==
    /\ viewers[v].room = "none"
    /\ r \notin rooms
    /\ UNCHANGED roomVars
    /\ UNCHANGED sessionVars

LaggingNever(t, n) == FALSE

\* the receiver has fallen behind the values the channel retains
Lagging(t, n) == n < t - CHANNEL_CAP

\* after RecvError::Lagged the receiver continues at the oldest retained value
LagCursor(t) == t - CHANNEL_CAP

\* the index of the value that the slot of index n holds when the tail is t
Slot(t, n) == n + CHANNEL_CAP * ((t - 1 - n) \div CHANNEL_CAP)

\* one poll of BroadcastStream::new(rx).filter_map(..) with a value pending:
\* Ok(s) => Some(event), Err(_) => None
StreamNext(v) ==
    /\ viewers[v].room # "none"
    /\ viewers[v].next < tail[viewers[v].room]
    /\ LET t == tail[viewers[v].room]
           n == viewers[v].next
       IN  viewers' = [viewers EXCEPT ![v] =
                         IF Lagging(t, n)
                         THEN [@ EXCEPT !.next = LagCursor(t), !.lagged = TRUE]
                         ELSE [@ EXCEPT !.next = n + 1, !.got = Slot(t, n)]]
    /\ UNCHANGED <<rooms, tail, sess>>
    /\ UNCHANGED sessionVars

SendWhenRoom(r) == \A v \in Receivers(r) : tail[r] - viewers[v].next < CHANNEL_CAP

\* let _ = tx_clone.send(..): a synchronous call, nothing is awaited
SendReady(r) == TRUE

SendToAll(tl, r) == [q \in RoomIds |-> IF q \in rooms THEN tl[q] + 1 ELSE tl[q]]

\* tx_clone.send(value): stored at the tail when the channel has a receiver,
\* returned as Err and dropped when it has none
Send(tl, r) == IF Receivers(r) = {} THEN tl ELSE [tl EXCEPT ![r] = @ + 1]

RoomFoundAlways(r) == TRUE

\* state.rooms.get(&room): Some(t) / None
RoomFound(r) == r \in rooms

\* handle_ws up to the reader's spawn: room lookup, upstream connect
WsOpen(s, r, ok) ==
    /\ sess[s].pc = "idle"
    /\ sess' = [sess EXCEPT ![s] =
                  IF ~RoomFound(r)
                  THEN [@ EXCEPT !.pc = "ended", !.ws = <<RoomNotFound>>]
                  ELSE IF ~ok
                  THEN [@ EXCEPT !.pc = "ended", !.dialed = TRUE,
                                 !.ws = <<UpstreamError, CloseFrame>>]
                  ELSE [@ EXCEPT !.pc = "run", !.dialed = TRUE, !.tx = r]]
    /\ UNCHANGED <<rooms, tail, viewers>>
    /\ UNCHANGED sessionVars

\* Message::Binary of an initialized session: audio_buffer_size += bin.len()
WsBinary(s, len) ==
    /\ sess[s].pc = "run"
    /\ sess' = [sess EXCEPT ![s].audio_buffer_size = @ + len]
    /\ UNCHANGED <<rooms, tail, viewers>>
    /\ UNCHANGED sessionVars

\* an admitted commit of an idle session: response_active.store(true);
\* audio_buffer_size = 0
WsCommit(s) ==
    /\ sess[s].pc = "run"
    /\ AdmitCommit(sess[s].audio_buffer_size)
    /\ ~sess[s].response_active
    /\ sess' = [sess EXCEPT ![s].response_active = TRUE,
                            ![s].audio_buffer_size = 0]
    /\ UNCHANGED <<rooms, tail, viewers>>
    /\ UNCHANGED sessionVars

\* a delta event: current_buf.push_str(delta); tx_clone.send(partial)
WsDelta(s, d) ==
    /\ sess[s].pc = "run"
    /\ SendReady(sess[s].tx)
    /\ sess' = [sess EXCEPT ![s].current_buf = PushStr(@, d)]
    /\ tail' = Send(tail, sess[s].tx)
    /\ UNCHANGED <<rooms, viewers>>
    /\ UNCHANGED sessionVars

\* a done-style event with text in the buffer: tx_clone.send(final);
\* current_buf.clear(); response_active_r.store(false)
WsDone(s) ==
    /\ sess[s].pc = "run"
    /\ sess[s].current_buf # <<>>
    /\ SendReady(sess[s].tx)
    /\ sess' = [sess EXCEPT ![s].current_buf = DoneBuffer(@),
                            ![s].response_active = FALSE]
    /\ tail' = Send(tail, sess[s].tx)
    /\ UNCHANGED <<rooms, viewers>>
    /\ UNCHANGED sessionVars

\* the session fails or terminates: the reader breaks, the speaker closes,
\* handle_ws returns and its locals are dropped
WsEnd(s) ==
    /\ sess[s].pc = "run"
    /\ sess' = [sess EXCEPT ![s].pc = "ended"]
    /\ UNCHANGED <<rooms, tail, viewers>>
    /\ UNCHANGED sessionVars

----------------------------------------------------------------------------
Next ==
    \/ \E found \in BOOLEAN : HandleWsLookup(found)
    \/ \E ok \in BOOLEAN : HandleWsConnect(ok)
    \/ ReaderCreated
    \/ \E d \in DeltaTexts : ReaderDeltaFlat(d)
    \/ \E d \in DeltaTexts : ReaderDeltaNested(d)
    \/ ReaderTextDone
    \/ ReaderDone
    \/ ReaderError
    \/ ReaderIgnored
    \/ ReaderExit
    \/ ClientInit
    \/ \E len \in FrameLens : ClientBinary(len)
    \/ ClientCommit
    \/ CommitGate
    \/ CommitStore
    \/ ClientIgnored
    \/ ClientClose
    \/ Teardown
    \/ Join
    \/ Tick

Spec == Init /\ [][Next]_vars

\* the registry with two rooms, two viewers and two speaker connections
RoomNext ==
    \/ \E r \in RoomIds : CreateRoom(r)
    \/ \E v \in Viewers, r \in RoomIds : SseRoom(v, r)
    \/ \E v \in Viewers, r \in RoomIds : SseRoomMissing(v, r)
    \/ \E v \in Viewers : StreamNext(v)
    \/ \E s \in Sessions, r \in RoomIds, ok \in BOOLEAN : WsOpen(s, r, ok)
    \/ \E s \in Sessions :
          sess[s].audio_buffer_size < min_bytes /\ WsBinary(s, min_bytes)
    \/ \E s \in Sessions : WsCommit(s)
    \/ \E s \in Sessions, d \in {<<"a">>} :
          /\ sess[s].pc = "run"
          /\ sess[s].current_buf = <<>>
          /\ tail[sess[s].tx] < MaxRoomPub
          /\ WsDelta(s, d)
    \/ \E s \in Sessions :
          /\ sess[s].pc = "run"
          /\ tail[sess[s].tx] < MaxRoomPub
          /\ WsDone(s)
    \/ \E s \in Sessions : WsEnd(s)

RoomSpec == Init /\ [][RoomNext]_vars

\* one room, one viewer, one speaker connection and enough publishes for the
\* viewer to fall more than CHANNEL_CAP values behind
LagNext ==
    \/ CreateRoom("r1")
    \/ SseRoom("v1", "r1")
    \/ StreamNext("v1")
    \/ WsOpen("s1", "r1", TRUE)
    \/ tail["r1"] < MaxLagPub /\ WsDelta("s1", <<>>)

LagSpec == Init /\ [][LagNext]_vars

\* the runtime schedules a task that can run: the teardown steps of handle_ws
\* are taken once enabled; nothing obliges the client or the upstream engine
\* to send anything
FairSpec == Spec /\ WF_vars(Teardown) /\ WF_vars(Join)

\* the session of Spec with the type of the last published event recorded
TraceSpec == TraceInit /\ [][Next]_vars

----------------------------------------------------------------------------
(* Properties *)

\* the step in which the commit handler decides, after its sleep
GateStep == clientPc = "sleep" /\ clientPc' # "sleep"
\* the step in which the reader handles a done-style event
DoneStep == ReaderTextDone \/ ReaderDone
IsPartial(e) == e.type = "partial"
IsFinal(e) == e.type = "final"
Published(P(_)) == \E i \in 1..Len(pub) : P(pub[i])

\* C1: response.create is never sent while a turn started earlier is still in
\* flight (neither a done-style or error event of it received, nor cancelled):
\* at most one turn is in flight at any time.
C1_TurnsSerialized == Cardinality({k \in Turns : InFlight(k)}) <= 1

\* C2: a commit with at least 4800 buffered bytes processed while
\* response_active is set is rejected without any directive when at most
\* 800 ms passed since the last fragment, and otherwise sends exactly one
\* cancel, then the buffer-commit, then the turn-start.
C2_ActiveCommitByElapsed ==
    [][(GateStep /\ audio_buffer_size >= min_bytes /\ response_active)
        => IF sinceDelta <= STALE_MS
           THEN /\ sent' = <<>>
                /\ response_active'
                /\ nturns' = nturns
                /\ clientPc' = "recv"
           ELSE sent' = <<ResponseCancel, BufferCommit, ResponseCreate>>]_vars

C2_Witness ==
    /\ sent = <<ResponseCancel, BufferCommit, ResponseCreate>>
    /\ clientPc = "store"

\* C3: sending the turn-start directive resets the last-fragment timestamp
\* to the time of the turn start (so that a commit processed within 800 ms
\* of it, with no fragment in between, is dropped).
C3_StartResetsTimestamp ==
    (clientPc = "store" /\ sent # <<>>) => sinceDelta = 0

\* C4: a commit processed with at least 4800 buffered bytes and more than
\* 800 ms after the last fragment always sends buffer-commit and turn-start.
C4_StalledTurnNeverBlocks ==
    [][(GateStep /\ audio_buffer_size >= min_bytes /\ sinceDelta > STALE_MS)
        => /\ Len(sent') >= 2
           /\ SubSeq(sent', Len(sent') - 1, Len(sent')) = <<BufferCommit, ResponseCreate>>]_vars

C4_Witness ==
    /\ nturns = 2
    /\ phase[1] = "open" /\ 1 \in cancelled
    /\ sent = <<ResponseCancel, BufferCommit, ResponseCreate>>

\* C5 as stated: deltas followed by a done event publish exactly one final,
\* the concatenation of the delta texts in arrival order.
C5_DeltasThenDoneOneFinal ==
    [][(DoneStep /\ deltas # <<>>) => pub' = <<Final(Flatten(deltas))>>]_vars

\* C5 amended: a done event publishes exactly one final carrying the
\* concatenation of the delta texts received since the buffer was empty when
\* that concatenation is not empty, and publishes nothing when it is empty.
C5_DoneFinalIsConcatenation ==
    [][DoneStep => pub' = IF Flatten(deltas) # <<>>
                          THEN <<Final(Flatten(deltas))>>
                          ELSE <<>>]_vars

C5_Witness == pub = <<Final(<<"a", "b">>)>>

C7_ErrorDiscardsBuffer == (pub = <<ErrorEvent>>) => current_buf = <<>>

\* C8: once the reader task has exited, no step of the session sends a
\* directive upstream.
C8_ReaderExitEndsSession == readerPc = "exited" => sent = <<>>

\* C9: once the client loop has exited, handle_ws eventually returns.
C9_ClientExitReturns == (clientPc = "teardown") ~> (clientPc = "returned")

\* C10: after handle_ws has returned the reader task is not running and
\* nothing is published.
C10_NoPublishAfterReturn ==
    clientPc = "returned" => (readerPc # "read" /\ pub = <<>>)

C10_Witness ==
    /\ clientPc = "returned"
    /\ readerPc = "exited"
    /\ nturns >= 1

\* the step in which the client loop takes a commit message of a session
\* that was never initialized
UninitCommitStep == clientPc = "recv" /\ ~inited /\ ClientCommit
\* the step in which the client loop takes a binary frame of len bytes
BinaryStep(len) == clientPc = "recv" /\ ClientBinary(len)
\* the step in which the commit handler stores after its sends
StoreStep == clientPc = "store" /\ clientPc' = "recv"
\* the step in which the reader handles a text delta of either shape
DeltaStep == \E d \in DeltaTexts : ReaderDeltaFlat(d) \/ ReaderDeltaNested(d)
Directives(q) == {q[i] : i \in 1..Len(q)}

\* C11: a commit that is rejected (the session is not initialized, fewer than
\* min_bytes bytes are buffered, or a turn is active and at most 800 ms
\* passed since its last fragment) sends no directive, publishes nothing,
\* sends nothing to the speaker and leaves the audio counter, the init flag
\* and response_active unchanged.
C11_RejectedCommitNoEffect ==
    [][(\/ UninitCommitStep
        \/ GateStep /\ audio_buffer_size < min_bytes
        \/ GateStep /\ response_active /\ sinceDelta <= STALE_MS)
        => /\ sent' = <<>>
           /\ pub' = <<>>
           /\ ws_out' = <<>>
           /\ clientPc' = "recv"
           /\ UNCHANGED <<audio_buffer_size, inited, response_active, nturns>>]_vars

C11_Witness ==
    /\ skipped = "active"
    /\ sinceDelta = STALE_MS
    /\ audio_buffer_size >= min_bytes

\* C12: the minimum is (24000 * 100 / 1000) * 2 = 4800 bytes, and in an
\* initialized session with response_active clear a commit is admitted (sends
\* the buffer-commit and the turn-start) exactly when the audio counter is at
\* least 4800; with less it sends nothing.
C12_ExactThreshold ==
    [][/\ min_bytes = 4800
       /\ (GateStep /\ inited /\ ~response_active)
           => IF audio_buffer_size >= 4800
              THEN sent' = <<BufferCommit, ResponseCreate>> /\ nturns' = nturns + 1
              ELSE sent' = <<>> /\ nturns' = nturns]_vars

C12_Witness ==
    /\ skipped = "audio"
    /\ audio_buffer_size = 4799
    /\ ~response_active

\* C13: before the first init message a binary frame is neither forwarded nor
\* counted and a commit sends nothing; in an initialized session every binary
\* frame is forwarded as exactly one audio-append directive, in the step
\* that receives it, and adds exactly its length to the audio counter.
C13_BinaryForwardedAfterInit ==
    [][/\ (~inited /\ (UninitCommitStep \/ \E len \in FrameLens : BinaryStep(len)))
           => /\ sent' = <<>> /\ pub' = <<>> /\ ws_out' = <<>>
              /\ UNCHANGED <<audio_buffer_size, inited, response_active, clientPc>>
       /\ \A len \in FrameLens :
            (inited /\ BinaryStep(len))
              => /\ sent' = <<AudioAppend>>
                 /\ audio_buffer_size' = audio_buffer_size + len
                 /\ pub' = <<>> /\ ws_out' = <<>>]_vars

C13_Witness ==
    /\ skipped = "binary"
    /\ ~inited
    /\ audio_buffer_size = 0

\* C19: whenever a step sends the buffer-commit, the turn-start or a cancel, it
\* sends the buffer-commit directly followed by the turn-start, preceded by the
\* cancel exactly when a turn was active; no directive is sent between these
\* sends and the stores that follow, and after the stores response_active is
\* set and the audio counter is zero.
C19_CommitThenCreate ==
    [][/\ (Directives(sent') \cap {BufferCommit, ResponseCreate, ResponseCancel} # {})
           => /\ GateStep
              /\ clientPc' = "store"
              /\ sent' = IF response_active
                         THEN <<ResponseCancel, BufferCommit, ResponseCreate>>
                         ELSE <<BufferCommit, ResponseCreate>>
       /\ (GateStep /\ clientPc' = "store") => BufferCommit \in Directives(sent')
       /\ (clientPc = "store" /\ ~StoreStep) => sent' = <<>>
       /\ StoreStep => response_active' /\ audio_buffer_size' = 0]_vars

C19_Witness ==
    /\ clientPc = "recv"
    /\ response_active
    /\ audio_buffer_size = 0
    /\ nturns = 2
    /\ 1 \in cancelled

\* C20: a text delta that arrives while response_active is clear, outside the
\* commit handler's window between its turn-start send and its store,
\* publishes no partial and is not appended to the running buffer.
C20_IdleDeltaNotAttributed ==
    [][(DeltaStep /\ ~response_active /\ clientPc # "store")
        => pub' = <<>> /\ current_buf' = current_buf]_vars

\* the step in which speaker connection s publishes an event
PublishStep(s) == (\E d \in {<<>>, <<"a">>} : WsDelta(s, d)) \/ WsDone(s)

\* C14: a viewer is given only values published after its subscription, and a
\* value a session publishes on the channel it got for a room id is stored
\* once and is pending for every viewer that subscribed with that id before.
C14_NoReplaySameChannel ==
    [][/\ \A v \in Viewers :
            viewers'[v].got # viewers[v].got
              => viewers'[v].got >= viewers'[v].from
       /\ \A s \in Sessions, v \in Viewers :
            (PublishStep(s) /\ viewers[v].room = sess[s].tx)
              => /\ tail'[sess[s].tx] = tail[sess[s].tx] + 1
                 /\ viewers'[v].next <= tail[sess[s].tx]
                 /\ viewers'[v].next >= viewers'[v].from]_vars

C14_Witness ==
    /\ viewers["v1"].room = "r1" /\ viewers["v2"].room = "r1"
    /\ viewers["v1"].from = 0 /\ viewers["v2"].from = 1
    /\ viewers["v1"].got = 1 /\ viewers["v2"].got = 1

\* C15: the values a viewer is given have strictly increasing publish
\* indices, all at or after its subscription and below the tail, also after
\* values were dropped for it.
C15_DeliveredInPublishOrder ==
    [][\A v \in Viewers :
         viewers'[v].got # viewers[v].got
           => /\ viewers'[v].got > viewers[v].got
              /\ viewers'[v].got >= viewers[v].from
              /\ viewers'[v].got < tail[viewers[v].room]]_vars

C15_Witness ==
    /\ viewers["v1"].lagged
    /\ viewers["v1"].got >= 1
    /\ viewers["v1"].got = viewers["v1"].next - 1

\* C16: a running session can always take its publish step, whether the
\* channel has no receiver (the value is dropped, nothing is stored) or a
\* receiver that is CHANNEL_CAP or more values behind.
C16_PublishNeverBlocks ==
    /\ \A s \in Sessions : sess[s].pc = "run" => ENABLED WsDelta(s, <<>>)
    /\ \A r \in RoomIds : Receivers(r) = {} => tail[r] = 0

C16_Witness ==
    /\ sess["s1"].pc = "run"
    /\ viewers["v1"].room = sess["s1"].tx
    /\ tail["r1"] - viewers["v1"].next > CHANNEL_CAP

\* C17: a step of one speaker connection changes the cells of no other
\* connection, a publish changes the channel of no room but the one the
\* session was opened for, and a session that fails to open or ends changes
\* no channel, receiver or registry entry.
C17_SessionsIsolated ==
    [][\A s \in Sessions :
         /\ sess'[s] # sess[s] => \A t \in Sessions \ {s} : sess'[t] = sess[t]
         /\ PublishStep(s)
              => \A r \in RoomIds \ {sess[s].tx} : tail'[r] = tail[r]
         /\ (sess'[s].pc = "ended" /\ sess[s].pc # "ended")
              => UNCHANGED <<rooms, tail, viewers>>]_vars

C17_Witness ==
    /\ sess["s1"].pc = "ended" /\ sess["s1"].tx = "r1"
    /\ sess["s2"].pc = "run" /\ sess["s2"].tx = "r2"
    /\ sess["s2"].current_buf # <<>>
    /\ sess["s2"].response_active
    /\ tail["r2"] = 1 /\ tail["r1"] = 0
    /\ viewers["v1"].room = "r1"

\* C18: a connection that names a room id the registry does not hold gets
\* exactly the room-not-found message and ends, without an upstream
\* connection attempt, a channel, a publish or a new registry entry, and it
\* stays ended.
C18_RoomNotFound ==
    [][\A s \in Sessions :
         /\ \A r \in RoomIds :
              (r \notin rooms /\ \E ok \in BOOLEAN : WsOpen(s, r, ok))
                => /\ sess'[s] = [NoSession EXCEPT !.pc = "ended",
                                                   !.ws = <<RoomNotFound>>]
                   /\ UNCHANGED <<rooms, tail, viewers>>
         /\ sess[s].ws = <<RoomNotFound>> => sess'[s] = sess[s]]_vars

C18_Witness ==
    /\ sess["s1"].ws = <<RoomNotFound>>
    /\ sess["s1"].pc = "ended"
    /\ rooms = {"r2"}
    /\ sess["s2"].pc = "run"

\* C21: in the events the session publishes, a final is published only
\* directly after a partial and carries the running buffer, which is the text
\* that partial carried: every partial carries the buffer right after the
\* newly received delta was appended to it, a step that publishes no partial
\* and no final leaves the buffer as it is, and a final empties it.
C21_FinalAfterSamePartial ==
    [][/\ \A i \in 1..Len(pub') :
            IsFinal(pub'[i])
              => /\ last_kind = "partial"
                 /\ pub'[i].text = current_buf
                 /\ current_buf' = <<>>
       /\ \A i \in 1..Len(pub') :
            IsPartial(pub'[i])
              => /\ pub' = <<Partial(current_buf')>>
                 /\ \E d \in DeltaTexts : current_buf' = current_buf \o d
       /\ (\A i \in 1..Len(pub') : ~IsFinal(pub'[i]) /\ ~IsPartial(pub'[i]))
            => current_buf' = current_buf]_vars

====
